---------------------------- MODULE Spec2Model ----------------------------
(***************************************************************************)
(* A model of primesieve's public facade (PrimeSieve, src/soe/PrimeSieve   *)
(* .cpp), of its auxiliary math (include/primesieve/pmath.hpp) and of the  *)
(* prime iterator (src/soe/iterator.cpp).                                  *)
(*                                                                         *)
(* 64-bit unsigned numbers are held as four 16-bit limbs, most significant *)
(* first, so that the overflow guard of setStart/setStop is computed at    *)
(* its real width.  The segmented sieve engine (PrimeNumberFinder and      *)
(* PrimeNumberGenerator) and the headers PrimeSieve.h, config.h, imath.h   *)
(* and primesieve/iterator.hpp are not part of the sources at hand: what   *)
(* the model needs of them is written from the specification and marked    *)
(* so where it is defined.                                                 *)
(***************************************************************************)
EXTENDS Integers, Sequences, FiniteSets, TLC

VARIABLES
  ps,         \* the PrimeSieve objects: ps[o] is the record of o's fields
  cout,       \* lines written to std::cout by the latest call
  cb,         \* user callback invocations made by the latest call
  events,     \* what doSmallPrime did, and the engines constructed, in the latest call (history)
  afterReset, \* the object as reset() left it when it last returned (history)
  call,       \* the latest PrimeSieve API call and its argument (history)
  thrown,     \* the exception the latest PrimeSieve call ended with, or "none"
  terminal,   \* the status lines on std::cout since the last reset() of "ps" (history)
  it,         \* the primesieve::iterator object
  itCall,     \* the latest iterator calls and what they returned (history)
  lock,       \* the omp_lock_t: the thread that has it set, or Unlocked
  guards      \* the OmpLockGuard of each thread

vars == <<ps, cout, cb, events, afterReset, call, thrown, terminal, it, itCall, lock, guards>>

psVars == <<ps, cout, cb, events, afterReset, call, thrown, terminal>>
itVars == <<it, itCall>>
lkVars == <<lock, guards>>

Max(a, b) == IF a >= b THEN a ELSE b
Min(a, b) == IF a <= b THEN a ELSE b

(***************************************************************************)
(* uint64_t as four 16-bit limbs.                                          *)
(***************************************************************************)
Base == 256 * 256

U64(n) == <<0, 0, n \div Base, n % Base>>

Zero64 == U64(0)

\* The value of a uint64_t that is below 2^31, as a number.
ToNat(u) == u[3] * Base + u[4]

\* UINT64_MAX and UINT32_MAX of <stdint.h>; UINT32_MAX widened to 64 bits.
UINT64_MAX == <<Base - 1, Base - 1, Base - 1, Base - 1>>
UINT32_MAX == <<0, 0, Base - 1, Base - 1>>

U64Lt(a, b) ==
  \E i \in 1..4 : a[i] < b[i] /\ \A j \in 1..(i - 1) : a[j] = b[j]

U64Le(a, b) == a = b \/ U64Lt(a, b)

\* a * k modulo 2^64, for a small factor k.
U64Mul(a, k) ==
  LET r4 == a[4] * k
      r3 == a[3] * k + (r4 \div Base)
      r2 == a[2] * k + (r3 \div Base)
      r1 == a[1] * k + (r2 \div Base)
  IN  <<r1 % Base, r2 % Base, r3 % Base, r4 % Base>>

\* a - b modulo 2^64.
U64Sub(a, b) ==
  LET d4 == a[4] - b[4]
      d3 == a[3] - b[3] - (IF d4 < 0 THEN 1 ELSE 0)
      d2 == a[2] - b[2] - (IF d3 < 0 THEN 1 ELSE 0)
      d1 == a[1] - b[1] - (IF d2 < 0 THEN 1 ELSE 0)
  IN  <<d1 % Base, d2 % Base, d3 % Base, d4 % Base>>

\* a + n modulo 2^64, for a small n >= 0.
U64Add(a, n) ==
  LET s4 == a[4] + n
      s3 == a[3] + (s4 \div Base)
      s2 == a[2] + (s3 \div Base)
      s1 == a[1] + (s2 \div Base)
  IN  <<s1 % Base, s2 % Base, s3 % Base, s4 % Base>>

(***************************************************************************)
(* int as a two's complement number: x \div 2 is the arithmetic shift and  *)
(* x % 2 the low bit, for negative x too.                                  *)
(***************************************************************************)
RECURSIVE BitOr(_, _)
BitOr(a, b) ==
  IF a = 0 THEN b
  ELSE IF b = 0 THEN a
  ELSE IF a = -1 \/ b = -1 THEN -1
  ELSE IF a % 256 = 0 /\ b % 256 = 0 THEN 256 * BitOr(a \div 256, b \div 256)
  ELSE 2 * BitOr(a \div 2, b \div 2) + Max(a % 2, b % 2)

RECURSIVE BitAnd(_, _)
BitAnd(a, b) ==
  IF a = 0 \/ b = 0 THEN 0
  ELSE IF a = -1 THEN b
  ELSE IF b = -1 THEN a
  ELSE IF a % 256 = 0 \/ b % 256 = 0 THEN 256 * BitAnd(a \div 256, b \div 256)
  ELSE 2 * BitAnd(a \div 2, b \div 2) + Min(a % 2, b % 2)

(***************************************************************************)
(* The flags of PrimeSieve.h.  The sixteen public flags are the ones the   *)
(* comment of setFlags lists; the four callback flags are private and are  *)
(* only stored by generatePrimes.                                          *)
(***************************************************************************)
COUNT_PRIMES          == 2^0
COUNT_TWINS           == 2^1
COUNT_TRIPLETS        == 2^2
COUNT_QUADRUPLETS     == 2^3
COUNT_QUINTUPLETS     == 2^4
COUNT_SEXTUPLETS      == 2^5
COUNT_SEPTUPLETS      == 2^6
PRINT_PRIMES          == 2^7
PRINT_TWINS           == 2^8
PRINT_TRIPLETS        == 2^9
PRINT_QUADRUPLETS     == 2^10
PRINT_QUINTUPLETS     == 2^11
PRINT_SEXTUPLETS      == 2^12
PRINT_SEPTUPLETS      == 2^13
CALCULATE_STATUS      == 2^14
PRINT_STATUS          == 2^15
CALLBACK32_PRIMES     == 2^20
CALLBACK32_OOP_PRIMES == 2^21
CALLBACK64_PRIMES     == 2^22
CALLBACK64_OOP_PRIMES == 2^23

\* 1 << 20 of setFlags and addFlags.
FLAGS_LIMIT == 2^20

isFlag(o, flag) == BitAnd(o.flags_, flag) = flag
isCount(o, index) == isFlag(o, COUNT_PRIMES * 2^index)
isPrint(o, index) == isFlag(o, PRINT_PRIMES * 2^index)
isStatus(o) == BitAnd(o.flags_, CALCULATE_STATUS + PRINT_STATUS) # 0

(***************************************************************************)
(* pmath.hpp                                                               *)
(***************************************************************************)
getInBetween(min, x, max) ==
  IF x < min THEN min
  ELSE IF x > max THEN max
  ELSE x

\* nextPowerOf2 of imath.h: the smallest power of two that is >= x, and 0
\* for x <= 0 (x - 1 has every bit set after the shifts, and ++x wraps to 0).
nextPowerOf2(x) ==
  IF x <= 0 THEN 0
  ELSE 2^(CHOOSE e \in 0..30 : 2^e >= x /\ (e = 0 \/ 2^(e - 1) < x))


(***************************************************************************)
(* Bounds of the model.                                                    *)
(***************************************************************************)
\* The largest number an interval handed to sieve() reaches.
MaxN == 20
\* clock() ticks a sieve() run may take: seconds_ is 0..MaxClock.
MaxClock == 1
\* What memory that was never written holds: a number in 0..MaxGarbage.
MaxGarbage == 1

\* max_stop() of the iterator is 5 * MaxStopBy5 in the model: the number
\* line is scaled down, and max_stop() stays a multiple of 5, as
\* 2^64 - 1 - 10 * (2^32 - 1) is.
MaxStopBy5 == 5
\* The interval a batch of the iterator spans is divided by IntervalScale,
\* so that a batch holds a few primes and there are several below max_stop().
IntervalScale == 1024
\* The buffer of the iterator is regenerated at most MaxRegen times between
\* two skipto calls.
MaxRegen == 11
\* The segments posted to a parent by its children.
MaxSegments == 12
\* The largest start of the runs that look at the small primes.
MaxSmall == 6
\* The threads that use one lock.
NThreads == 3
\* The largest segment posted to updateStatus in one call.
MaxSegment == 2

max_stop == 5 * MaxStopBy5

\* The primes the engine and the properties may meet: tuplets that start at or
\* below MaxN reach at most 20 numbers further.
PrimeTable == {n \in 2..Max(MaxN + 21, max_stop + 1) : \A d \in 2..(n - 1) : n % d # 0}
IsPrime(n) == n \in PrimeTable

(***************************************************************************)
(* double values.  status_ is held as the exact fraction n/d in lowest     *)
(* terms (the rounding of the double division is not modelled);            *)
(* sumSegments_ and interval_ hold whole numbers.                          *)
(***************************************************************************)
RECURSIVE GCD(_, _)
GCD(a, b) == IF b = 0 THEN a ELSE GCD(b, a % b)

Frac(n, d) == LET g == GCD(IF n < 0 THEN -n ELSE n, d) IN [n |-> n \div g, d |-> d \div g]

MinusOne == Frac(-1, 1)

\* static_cast<int>(x): truncation towards zero.
ToInt(x) == IF x.n >= 0 THEN x.n \div x.d ELSE -((-x.n) \div x.d)

\* std::min((sum / interval) * 100.0, 100.0)
StatusOf(sum, interval) ==
  IF sum * 100 >= 100 * interval THEN Frac(100, 1) ELSE Frac(sum * 100, interval)

(***************************************************************************)
(* PrimeSieve objects.  "ps" is an object the user constructs with         *)
(* PrimeSieve(); "child" is one constructed with PrimeSieve(&ps), as the   *)
(* parallel driver does for its worker threads.                            *)
(***************************************************************************)
NULL == "NULL"

\* std::cout << '\r' << status << '%'
StatusLine(status) == "\r" \o ToString(status) \o "%"
Objs == {"ps", "child"}

\* config::PRESIEVE and config::SIEVESIZE, the defaults the comments of
\* setPreSieve and setSieveSize give.
PRESIEVE == 19
SIEVESIZE == 32

ZeroCounts == [i \in 1..7 |-> 0]

smallPrimes_ ==
  << [min |-> 2, max |-> 2,  index |-> 0, str |-> "2"],
     [min |-> 3, max |-> 3,  index |-> 0, str |-> "3"],
     [min |-> 5, max |-> 5,  index |-> 0, str |-> "5"],
     [min |-> 3, max |-> 5,  index |-> 1, str |-> "(3, 5)"],
     [min |-> 5, max |-> 7,  index |-> 1, str |-> "(5, 7)"],
     [min |-> 5, max |-> 11, index |-> 2, str |-> "(5, 7, 11)"],
     [min |-> 5, max |-> 13, index |-> 3, str |-> "(5, 7, 11, 13)"],
     [min |-> 5, max |-> 17, index |-> 4, str |-> "(5, 7, 11, 13, 17)"] >>

\* A world: the objects and the output streams, threaded through the
\* member functions below.
World(p, c, k, l) == [ps |-> p, cout |-> c, cb |-> k, log |-> l]

\* updateStatus that never forwards to the parent.
updateStatusOwn(w, o, segment) ==
  LET me  == w.ps[o]
      sum == me.sumSegments_ + segment
      old == ToInt(me.status_)
      st  == StatusOf(sum, me.interval_)
  IN  [w EXCEPT !.ps[o].sumSegments_ = sum,
                !.ps[o].status_ = st,
                !.cout = IF isFlag(me, PRINT_STATUS) /\ ToInt(st) > old
                           THEN Append(@, StatusLine(ToInt(st)))
                           ELSE @]

\* updateStatus that prints the percentage at every call, risen or not.
updateStatusPrintsEach(w, o, segment) ==
  LET p   == IF w.ps[o].parent_ # NULL THEN w.ps[o].parent_ ELSE o
      me  == w.ps[p]
      sum == me.sumSegments_ + segment
      st  == StatusOf(sum, me.interval_)
  IN  [w EXCEPT !.ps[p].sumSegments_ = sum,
                !.ps[p].status_ = st,
                !.cout = IF isFlag(me, PRINT_STATUS)
                           THEN Append(@, StatusLine(ToInt(st)))
                           ELSE @]

RECURSIVE updateStatus(_, _, _)
updateStatus(w, o, segment) ==
  IF w.ps[o].parent_ # NULL
    THEN updateStatus(w, w.ps[o].parent_, segment)
    ELSE LET me  == w.ps[o]
             sum == me.sumSegments_ + segment
             old == ToInt(me.status_)
             st  == StatusOf(sum, me.interval_)
         IN  [w EXCEPT !.ps[o].sumSegments_ = sum,
                       !.ps[o].status_ = st,
                       !.cout = IF isFlag(me, PRINT_STATUS) /\ ToInt(st) > old
                                  THEN Append(@, StatusLine(ToInt(st)))
                                  ELSE @]

\* reset() with the counts left as they are.
resetKeepsCounts(w, o) ==
  LET me == w.ps[o]
      w1 == [w EXCEPT !.ps[o].sumSegments_ = 0,
                      !.ps[o].interval_ = ToNat(U64Add(U64Sub(me.stop_, me.start_), 1)),
                      !.ps[o].status_ = MinusOne,
                      !.ps[o].seconds_ = 0]
  IN  IF isStatus(me) THEN updateStatus(w1, o, 0) ELSE w1

reset(w, o) ==
  LET me == w.ps[o]
      w1 == [w EXCEPT !.ps[o].sumSegments_ = 0,
                      !.ps[o].counts_ = ZeroCounts,
                      !.ps[o].interval_ = ToNat(U64Add(U64Sub(me.stop_, me.start_), 1)),
                      !.ps[o].status_ = MinusOne,
                      !.ps[o].seconds_ = 0]
  IN  IF isStatus(me) THEN updateStatus(w1, o, 0) ELSE w1

\* setStart with the guard one too far: the limit itself passes.
setStartOffByOne(me, start) ==
  IF U64Lt(U64Sub(UINT64_MAX, U64Mul(UINT32_MAX, 10)), start)
    THEN [obj |-> me, exc |-> "invalid_argument"]
    ELSE [obj |-> [me EXCEPT !.start_ = start], exc |-> "none"]

setStart(me, start) ==
  IF U64Le(U64Sub(UINT64_MAX, U64Mul(UINT32_MAX, 10)), start)
    THEN [obj |-> me, exc |-> "invalid_argument"]
    ELSE [obj |-> [me EXCEPT !.start_ = start], exc |-> "none"]

setStop(me, stop) ==
  IF U64Le(U64Sub(UINT64_MAX, U64Mul(UINT32_MAX, 10)), stop)
    THEN [obj |-> me, exc |-> "invalid_argument"]
    ELSE [obj |-> [me EXCEPT !.stop_ = stop], exc |-> "none"]

setPreSieve(me, preSieve) ==
  [me EXCEPT !.preSieve_ = getInBetween(13, preSieve, 23)]

\* setSieveSize without the rounding to a power of two.
setSieveSizeNoRounding(me, sieveSize) ==
  [me EXCEPT !.sieveSize_ = getInBetween(1, sieveSize, 4096)]

setSieveSize(me, sieveSize) ==
  [me EXCEPT !.sieveSize_ = getInBetween(1, nextPowerOf2(sieveSize), 4096)]

setFlags(me, flags) ==
  IF flags >= FLAGS_LIMIT
    THEN [obj |-> me, exc |-> "invalid_argument"]
    ELSE [obj |-> [me EXCEPT !.flags_ = flags], exc |-> "none"]

\* addFlags that replaces the flags like setFlags.
addFlagsReplaces(me, flags) ==
  IF flags >= FLAGS_LIMIT
    THEN [obj |-> me, exc |-> "invalid_argument"]
    ELSE [obj |-> [me EXCEPT !.flags_ = flags], exc |-> "none"]

addFlags(me, flags) ==
  IF flags >= FLAGS_LIMIT
    THEN [obj |-> me, exc |-> "invalid_argument"]
    ELSE [obj |-> [me EXCEPT !.flags_ = BitOr(@, flags)], exc |-> "none"]

\* PrimeSieve::PrimeSieve(): the fields the initializer list and the two
\* setters give, before reset() runs in the constructor's body.
Constructed ==
  setSieveSize(
    setPreSieve([live |-> TRUE,
                 start_ |-> Zero64, stop_ |-> Zero64, flags_ |-> COUNT_PRIMES,
                 parent_ |-> NULL, preSieve_ |-> 0, sieveSize_ |-> 0,
                 counts_ |-> ZeroCounts, status_ |-> MinusOne,
                 sumSegments_ |-> 0, interval_ |-> 1, seconds_ |-> 0],
                PRESIEVE),
    SIEVESIZE)


\* An object that is not constructed (yet, or any more).
NoObject == [Constructed EXCEPT !.live = FALSE]

(***************************************************************************)
(* doSmallPrime.  LockGuard is taken and released within the call; the     *)
(* calls of one sieve() run are made by one thread.                        *)
(***************************************************************************)
CallbackFlags ==
  << [flag |-> CALLBACK32_PRIMES,     fn |-> "callback32_"],
     [flag |-> CALLBACK64_PRIMES,     fn |-> "callback64_"],
     [flag |-> CALLBACK32_OOP_PRIMES, fn |-> "callback32_OOP_"],
     [flag |-> CALLBACK64_OOP_PRIMES, fn |-> "callback64_OOP_"] >>

\* The callbacks whose flag is set, called with p, in the order of the code.
RECURSIVE Callbacks(_, _, _)
Callbacks(me, p, i) ==
  IF i > Len(CallbackFlags) THEN <<>>
  ELSE (IF isFlag(me, CallbackFlags[i].flag)
          THEN << [fn |-> CallbackFlags[i].fn, arg |-> p] >>
          ELSE <<>>) \o Callbacks(me, p, i + 1)

\* doSmallPrime without the test of sp.max against stop_.
doSmallPrimeNoMax(w, o, sp) ==
  LET me == w.ps[o] IN
  IF U64Le(me.start_, U64(sp.min))
    THEN LET calls == IF sp.index = 0 THEN Callbacks(me, sp.min, 1) ELSE <<>>
         IN  [w EXCEPT
               !.cb = @ \o calls,
               !.ps[o].counts_[sp.index + 1] = IF isCount(me, sp.index) THEN @ + 1 ELSE @,
               !.cout = IF isPrint(me, sp.index) THEN Append(@, sp.str) ELSE @,
               !.log = @ \o [i \in 1..Len(calls) |-> [what |-> calls[i].fn, str |-> sp.str, index |-> sp.index]]
                         \o (IF isCount(me, sp.index)
                               THEN << [what |-> "count", str |-> sp.str, index |-> sp.index] >>
                               ELSE <<>>)
                         \o (IF isPrint(me, sp.index)
                               THEN << [what |-> "print", str |-> sp.str, index |-> sp.index] >>
                               ELSE <<>>)]
    ELSE w

doSmallPrime(w, o, sp) ==
  LET me == w.ps[o] IN
  IF U64Le(me.start_, U64(sp.min)) /\ U64Le(U64(sp.max), me.stop_)
    THEN LET calls == IF sp.index = 0 THEN Callbacks(me, sp.min, 1) ELSE <<>>
         IN  [w EXCEPT
               !.cb = @ \o calls,
               !.ps[o].counts_[sp.index + 1] = IF isCount(me, sp.index) THEN @ + 1 ELSE @,
               !.cout = IF isPrint(me, sp.index) THEN Append(@, sp.str) ELSE @,
               !.log = @ \o [i \in 1..Len(calls) |-> [what |-> calls[i].fn, str |-> sp.str, index |-> sp.index]]
                         \o (IF isCount(me, sp.index)
                               THEN << [what |-> "count", str |-> sp.str, index |-> sp.index] >>
                               ELSE <<>>)
                         \o (IF isPrint(me, sp.index)
                               THEN << [what |-> "print", str |-> sp.str, index |-> sp.index] >>
                               ELSE <<>>)]
    ELSE w

\* for (int i = 0; i < 8; i++) doSmallPrime(smallPrimes_[i]);
RECURSIVE doSmallPrimes(_, _, _)
doSmallPrimes(w, o, i) ==
  IF i > Len(smallPrimes_) THEN w
  ELSE doSmallPrimes(doSmallPrime(w, o, smallPrimes_[i]), o, i + 1)

(***************************************************************************)
(* The engine behind PrimeNumberFinder, from the specification: it finds   *)
(* the primes and prime k-tuplets whose members are all >= 7 and lie in    *)
(* [start_, stop_], counts and prints them as the flags say, hands each    *)
(* prime to the callbacks, and posts the size of what it processed.        *)
(***************************************************************************)
TupletOffsets(index) ==
  CASE index = 0 -> { <<0>> }
    [] index = 1 -> { <<0, 2>> }
    [] index = 2 -> { <<0, 2, 6>>, <<0, 4, 6>> }
    [] index = 3 -> { <<0, 2, 6, 8>> }
    [] index = 4 -> { <<0, 2, 6, 8, 12>>, <<0, 4, 6, 10, 12>> }
    [] index = 5 -> { <<0, 4, 6, 10, 12, 16>> }
    [] index = 6 -> { <<0, 2, 6, 8, 12, 18, 20>>, <<0, 2, 8, 12, 14, 18, 20>> }

\* The k-tuplets that start at p and end at or below hi (at most one).
TupletsAt(index, p, hi) ==
  { [i \in 1..(index + 1) |-> p + offs[i]] :
      offs \in { f \in TupletOffsets(index) :
                   /\ p + f[index + 1] <= hi
                   /\ \A i \in 1..(index + 1) : IsPrime(p + f[i]) } }

RECURSIVE TupletsFrom(_, _, _)
TupletsFrom(index, p, hi) ==
  IF p > hi THEN <<>>
  ELSE (IF TupletsAt(index, p, hi) = {} THEN <<>>
        ELSE << CHOOSE t \in TupletsAt(index, p, hi) : TRUE >>)
       \o TupletsFrom(index, p + 1, hi)

\* The line the engine prints for a prime or a tuplet.
RECURSIVE Members(_, _)
Members(t, i) ==
  IF i > Len(t) THEN ""
  ELSE (IF i > 1 THEN ", " ELSE "") \o ToString(t[i]) \o Members(t, i + 1)

LineOf(t) == IF Len(t) = 1 THEN ToString(t[1]) ELSE "(" \o Members(t, 1) \o ")"

RECURSIVE FinderPrints(_, _, _, _)
FinderPrints(me, index, lo, hi) ==
  IF index > 6 THEN <<>>
  ELSE (IF isPrint(me, index)
          THEN LET ts == TupletsFrom(index, lo, hi) IN [i \in 1..Len(ts) |-> LineOf(ts[i])]
          ELSE <<>>) \o FinderPrints(me, index + 1, lo, hi)

\* Every prime goes to the callbacks whose flag is set.
FinderCallbacks(me, primes) ==
  LET fns == Callbacks(me, 0, 1)
      n == Len(fns)
  IN  [i \in 1..(Len(primes) * n) |->
         [fns[((i - 1) % n) + 1] EXCEPT !.arg = primes[((i - 1) \div n) + 1][1]]]

Finder(w, o) ==
  LET me == w.ps[o]
      lo == Max(ToNat(me.start_), 7)
      hi == ToNat(me.stop_)
      w1 == [w EXCEPT
               !.ps[o].counts_ = [i \in 1..7 |->
                                    IF isCount(me, i - 1)
                                      THEN @[i] + Len(TupletsFrom(i - 1, lo, hi))
                                      ELSE @[i]],
               !.cout = @ \o FinderPrints(me, 0, lo, hi),
               !.cb = @ \o FinderCallbacks(me, TupletsFrom(0, lo, hi)),
               !.log = Append(@, [what |-> "PrimeNumberFinder", str |-> "", index |-> 0])]
  IN  IF isStatus(me) /\ lo <= hi THEN updateStatus(w1, o, hi - lo + 1) ELSE w1

(***************************************************************************)
(* sieve().  A result holds the world the call leaves, the object as       *)
(* reset() left it, and the exception thrown ("none" when it returned).    *)
(* dt is what clock() measured.                                            *)
(***************************************************************************)
\* sieve() that clears the counts, the status and the seconds before it
\* tests stop_ < start_.
sieveResetsFirst(w, o, dt) ==
  IF U64Lt(w.ps[o].stop_, w.ps[o].start_)
    THEN LET w1 == [w EXCEPT !.ps[o].sumSegments_ = 0,
                             !.ps[o].counts_ = ZeroCounts,
                             !.ps[o].status_ = MinusOne,
                             !.ps[o].seconds_ = 0]
         IN  [w |-> w1, snap |-> w1.ps[o], exc |-> "invalid_argument"]
    ELSE LET w1 == reset(w, o)
             w2 == IF U64Le(w1.ps[o].start_, U64(5)) THEN doSmallPrimes(w1, o, 1) ELSE w1
             w3 == IF U64Le(U64(7), w2.ps[o].stop_) THEN Finder(w2, o) ELSE w2
             w4 == [w3 EXCEPT !.ps[o].seconds_ = dt]
             w5 == IF isStatus(w4.ps[o]) THEN updateStatus(w4, o, 10) ELSE w4
         IN  [w |-> w5, snap |-> w1.ps[o], exc |-> "none"]

\* sieve() without the loop over smallPrimes_.
sieveWithoutSmallPrimes(w, o, dt) ==
  IF U64Lt(w.ps[o].stop_, w.ps[o].start_)
    THEN [w |-> w, snap |-> afterReset, exc |-> "invalid_argument"]
    ELSE LET w1 == reset(w, o)
             w3 == IF U64Le(U64(7), w1.ps[o].stop_) THEN Finder(w1, o) ELSE w1
             w4 == [w3 EXCEPT !.ps[o].seconds_ = dt]
             w5 == IF isStatus(w4.ps[o]) THEN updateStatus(w4, o, 10) ELSE w4
         IN  [w |-> w5, snap |-> w1.ps[o], exc |-> "none"]

sieve(w, o, dt) ==
  IF U64Lt(w.ps[o].stop_, w.ps[o].start_)
    THEN [w |-> w, snap |-> afterReset, exc |-> "invalid_argument"]
    ELSE LET w1 == reset(w, o)
             w2 == IF U64Le(w1.ps[o].start_, U64(5)) THEN doSmallPrimes(w1, o, 1) ELSE w1
             w3 == IF U64Le(U64(7), w2.ps[o].stop_) THEN Finder(w2, o) ELSE w2
             w4 == [w3 EXCEPT !.ps[o].seconds_ = dt]
             w5 == IF isStatus(w4.ps[o]) THEN updateStatus(w4, o, 10) ELSE w4
         IN  [w |-> w5, snap |-> w1.ps[o], exc |-> "none"]

\* sieve(start, stop): setStart, setStop, sieve(); an exception ends it.
sieve2(w, o, start, stop, dt) ==
  LET r1 == setStart(w.ps[o], start)
      r2 == setStop(r1.obj, stop)
  IN  IF r1.exc # "none" THEN [w |-> w, snap |-> afterReset, exc |-> r1.exc]
      ELSE IF r2.exc # "none"
        THEN [w |-> [w EXCEPT !.ps[o] = r1.obj], snap |-> afterReset, exc |-> r2.exc]
        ELSE sieve([w EXCEPT !.ps[o] = r2.obj], o, dt)

\* sieve(start, stop, flags)
sieve3(w, o, start, stop, flags, dt) ==
  LET r1 == setStart(w.ps[o], start)
      r2 == setStop(r1.obj, stop)
      r3 == setFlags(r2.obj, flags)
  IN  IF r1.exc # "none" THEN [w |-> w, snap |-> afterReset, exc |-> r1.exc]
      ELSE IF r2.exc # "none"
        THEN [w |-> [w EXCEPT !.ps[o] = r1.obj], snap |-> afterReset, exc |-> r2.exc]
      ELSE IF r3.exc # "none"
        THEN [w |-> [w EXCEPT !.ps[o] = r2.obj], snap |-> afterReset, exc |-> r3.exc]
        ELSE sieve([w EXCEPT !.ps[o] = r3.obj], o, dt)

\* The four generatePrimes: kind is an index of CallbackFlags; callback and
\* obj are NULL or a pointer; obj is only looked at by the OOP variants.
generatePrimes(w, o, kind, start, stop, callback, obj, dt) ==
  LET oop == CallbackFlags[kind].fn \in {"callback32_OOP_", "callback64_OOP_"} IN
  IF callback = NULL \/ (oop /\ obj = NULL)
    THEN [w |-> w, snap |-> afterReset, exc |-> "invalid_argument"]
    ELSE sieve2([w EXCEPT !.ps[o] = setPreSieve([@ EXCEPT !.flags_ = CallbackFlags[kind].flag], 17)],
                o, start, stop, dt)


(***************************************************************************)
(* openmp_lock.h.  One omp_lock_t, initialized by OmpInitLock, and the     *)
(* threads that build OmpLockGuard objects on it.  lock is the thread that *)
(* has the lock set, or Unlocked.  guards[t] is the guard of thread t:     *)
(*   pc        "none" before the first guard, "omp_set_lock" while the     *)
(*             constructor is blocked, "scope" while the guard is alive,   *)
(*             "gone" after the destructor                                 *)
(*   isSet_    the field of the code                                       *)
(*   wait      waitForLock of the constructor                              *)
(*   got       whether the constructor's omp call set the lock (history)   *)
(*   unsets    the omp_unset_lock calls the guard made (history)           *)
(*   exit      how the scope ended (history)                               *)
(***************************************************************************)
Threads == 1..NThreads

\* The lock after omp_init_lock: no thread has it set.
Unlocked == 0

NoGuard ==
  [pc |-> "none", isSet_ |-> FALSE, wait |-> FALSE, got |-> FALSE, unsets |-> 0, exit |-> "none"]

\* omp_test_lock: sets the lock if it is not set, and tells whether it did.
omp_test_lock(lk, t) == IF lk = Unlocked THEN [lock |-> t, ret |-> 1] ELSE [lock |-> lk, ret |-> 0]

\* omp_unset_lock
omp_unset_lock(lk, t) == Unlocked

\* ~OmpLockGuard() that unsets the lock whether or not the guard set it.
OmpLockGuard_dtorAlways(me, lk, t, how) ==
  [lock |-> omp_unset_lock(lk, t),
   me |-> [me EXCEPT !.pc = "gone", !.unsets = @ + 1, !.exit = how]]

\* OmpLockGuard(lock, waitForLock = false)
OmpLockGuard_test(lk, t) ==
  LET r == omp_test_lock(lk, t) IN
  [lock |-> r.lock,
   me |-> [pc |-> "scope", isSet_ |-> (r.ret # 0), wait |-> FALSE, got |-> (lk = Unlocked),
           unsets |-> 0, exit |-> "none"]]

\* OmpLockGuard(lock, waitForLock = true), once omp_set_lock has returned.
OmpLockGuard_set(lk, t) ==
  [lock |-> t,
   me |-> [pc |-> "scope", isSet_ |-> TRUE, wait |-> TRUE, got |-> TRUE,
           unsets |-> 0, exit |-> "none"]]

\* ~OmpLockGuard(); how is "return" or "throw": the destructor runs when
\* the scope is left either way.
OmpLockGuard_dtor(me, lk, t, how) ==
  IF me.isSet_
    THEN [lock |-> omp_unset_lock(lk, t),
          me |-> [me EXCEPT !.pc = "gone", !.unsets = @ + 1, !.exit = how]]
    ELSE [lock |-> lk, me |-> [me EXCEPT !.pc = "gone", !.exit = how]]

\* No thread uses the lock: the state of the other specifications.
LockIdle ==
  /\ lock = Unlocked
  /\ guards = [t \in Threads |-> NoGuard]

(***************************************************************************)
(* The calls a user makes, as actions.  Every call starts with empty       *)
(* output streams, so cout, cb and events hold what the latest call did.   *)
(***************************************************************************)
\* The status lines among the lines a call printed.
StatusLines(lines) ==
  LET all == {StatusLine(n) : n \in 0..100}
      IsStatusLine(l) == l \in all
  IN  SelectSeq(lines, IsStatusLine)

\* A call that got as far as reset() on "ps": reset() itself, and sieve()
\* that did not throw.
StartsRun(r, c) ==
  /\ c.o = "ps"
  /\ c.op \in {"reset", "sieve", "getPrimeCount", "generatePrimes"}
  /\ r.exc = "none"

Commit(r, c) ==
  /\ ps' = r.w.ps
  /\ cout' = r.w.cout
  /\ terminal' = IF StartsRun(r, c) THEN StatusLines(r.w.cout)
                                    ELSE terminal \o StatusLines(r.w.cout)
  /\ cb' = r.w.cb
  /\ events' = r.w.log
  /\ afterReset' = r.snap
  /\ thrown' = r.exc
  /\ call' = c
  /\ UNCHANGED <<itVars, lkVars>>

\* The call made: the member function, the object, its 64-bit or int
\* argument, and the counts the object held when the call was made.
Called(op, o) == [op |-> op, o |-> o, u |-> Zero64, n |-> 0, was |-> ps[o].counts_]

\* The result of a setter that works on the object alone.
OfSetter(o, r) ==
  [w |-> World([ps EXCEPT ![o] = r.obj], <<>>, <<>>, <<>>), snap |-> afterReset, exc |-> r.exc]

\* sieve() of the model takes intervals up to MaxN; an inverted interval of
\* any size is refused by the code before it is looked at.
InModelRange(me) ==
  U64Lt(me.stop_, me.start_) \/ U64Le(me.stop_, U64(MaxN))

SetStart(o, v) ==
  /\ ps[o].live
  /\ Commit(OfSetter(o, setStart(ps[o], v)), [Called("setStart", o) EXCEPT !.u = v])

SetStop(o, v) ==
  /\ ps[o].live
  /\ Commit(OfSetter(o, setStop(ps[o], v)), [Called("setStop", o) EXCEPT !.u = v])

SetPreSieve(o, n) ==
  /\ ps[o].live
  /\ Commit(OfSetter(o, [obj |-> setPreSieve(ps[o], n), exc |-> "none"]),
            [Called("setPreSieve", o) EXCEPT !.n = n])

SetSieveSize(o, n) ==
  /\ ps[o].live
  /\ Commit(OfSetter(o, [obj |-> setSieveSize(ps[o], n), exc |-> "none"]),
            [Called("setSieveSize", o) EXCEPT !.n = n])

SetFlags(o, f) ==
  /\ ps[o].live
  /\ Commit(OfSetter(o, setFlags(ps[o], f)), [Called("setFlags", o) EXCEPT !.n = f])

AddFlags(o, f) ==
  /\ ps[o].live
  /\ Commit(OfSetter(o, addFlags(ps[o], f)), [Called("addFlags", o) EXCEPT !.n = f])

\* A child posts what it processed to its parent, whose sumSegments_ grows
\* until the parent runs itself; children are run while it is below
\* MaxSegments.
Sieve(o, dt) ==
  /\ ps[o].live
  /\ InModelRange(ps[o])
  /\ ps[o].parent_ # NULL => ps[ps[o].parent_].sumSegments_ < MaxSegments
  /\ Commit(sieve(World(ps, <<>>, <<>>, <<>>), o, dt), Called("sieve", o))

\* getPrimeCount(start, stop)
GetPrimeCount(o, a, b, dt) ==
  /\ ps[o].live
  /\ Commit(sieve3(World(ps, <<>>, <<>>, <<>>), o, U64(a), U64(b), COUNT_PRIMES, dt),
            Called("getPrimeCount", o))

GeneratePrimes(o, kind, a, b, callback, obj, dt) ==
  /\ ps[o].live
  /\ Commit(generatePrimes(World(ps, <<>>, <<>>, <<>>), o, kind, U64(a), U64(b), callback, obj, dt),
            [Called("generatePrimes", o) EXCEPT !.n = kind])

\* PrimeSieve(PrimeSieve* parent): five fields are copied from the parent
\* (the callbacks with the flags); the others are not initialized and hold
\* whatever the memory held, g.
NewChild(g) ==
  /\ ~ps["child"].live
  /\ Commit([w |-> World([ps EXCEPT !["child"] =
                            [live |-> TRUE,
                             start_ |-> U64(g), stop_ |-> U64(g),
                             flags_ |-> ps["ps"].flags_,
                             parent_ |-> "ps",
                             preSieve_ |-> ps["ps"].preSieve_,
                             sieveSize_ |-> ps["ps"].sieveSize_,
                             counts_ |-> [i \in 1..7 |-> g],
                             status_ |-> Frac(g, 1),
                             sumSegments_ |-> g, interval_ |-> g, seconds_ |-> g]],
                         <<>>, <<>>, <<>>),
             snap |-> afterReset, exc |-> "none"],
            Called("PrimeSieve", "child"))

\* The child is destroyed when its worker is done.
DeleteChild ==
  /\ ps["child"].live
  /\ Commit([w |-> World([ps EXCEPT !["child"] = NoObject], <<>>, <<>>, <<>>),
             snap |-> afterReset, exc |-> "none"],
            Called("~PrimeSieve", "child"))

\* PrimeSieve ps; : the constructor ends with reset().
InitWorld == reset(World([o \in Objs |-> IF o = "ps" THEN Constructed ELSE NoObject], <<>>, <<>>, <<>>), "ps")

\* The iterator is defined below; the PrimeSieve specifications leave it alone.
PsInit ==
  /\ ps = InitWorld.ps
  /\ cout = InitWorld.cout
  /\ terminal = StatusLines(InitWorld.cout)
  /\ cb = InitWorld.cb
  /\ events = InitWorld.log
  /\ afterReset = InitWorld.ps["ps"]
  /\ call = [op |-> "PrimeSieve", o |-> "ps", u |-> Zero64, n |-> 0, was |-> ZeroCounts]
  /\ thrown = "none"


(***************************************************************************)
(* primesieve::iterator (iterator.cpp).  Its numbers are below max_stop()  *)
(* of the model and are held as plain numbers.  i_ counts from 0 as in the *)
(* code; primes_[i] of the code is primes_[i + 1] here.                    *)
(***************************************************************************)
\* The primes in [lo, hi], ascending.
RECURSIVE PrimesIn(_, _)
PrimesIn(lo, hi) ==
  IF lo > hi THEN <<>>
  ELSE (IF IsPrime(lo) THEN <<lo>> ELSE <<>>) \o PrimesIn(lo + 1, hi)

\* primesieve::generate_primes(start, stop, &primes) of primesieve.h, from
\* the specification: the primes of [start, stop]; past max_stop() it fails.
generate_primes_of(start, stop) ==
  IF start > max_stop \/ stop > max_stop
    THEN [primes |-> <<>>, exc |-> "primesieve_error"]
    ELSE [primes |-> PrimesIn(start, stop), exc |-> "none"]

\* iterator::generate_primes
generate_primes(me, start, stop) ==
  LET g == generate_primes_of(start, stop) IN
  IF g.exc # "none" THEN [it |-> [me EXCEPT !.primes_ = <<>>], exc |-> g.exc]
  ELSE [it |-> [me EXCEPT !.primes_ = IF g.primes = <<>> THEN <<0>> ELSE g.primes],
        exc |-> "none"]

KILOBYTE == 2^10
MEGABYTE == 2^20

\* The smallest whole numbers x with ln(x) >= 1, 2, 3, ...
EPowers == <<3, 8, 21, 55, 149, 404, 1097, 2981, 8104, 22027>>

\* std::log(x), rounded down.
FloorLn(x) == Cardinality({k \in 1..Len(EPowers) : EPowers[k] <= x})

\* The batch with 32 KiB / 8 up to and including the tenth call.
batch_primesFirstTen(count) ==
  Min(IF count <= 10 THEN (KILOBYTE * 32) \div 8 ELSE (MEGABYTE * 4) \div 8,
      (MEGABYTE * 512) \div 8)

\* The primes of a batch: primes of get_interval_size before std::log(x) is
\* applied.  sqrtx_primes is below 32 KiB / 8 for every n < 10^9 and decides
\* nothing in the range of the model; count is count_ after count_++.
batch_primes(count) ==
  Min(IF count < 10 THEN (KILOBYTE * 32) \div 8 ELSE (MEGABYTE * 4) \div 8,
      (MEGABYTE * 512) \div 8)

\* get_interval_size(n), on the scaled number line; me.count_ is counted up
\* by the caller below.
get_interval_size(me, n) ==
  LET x == Max(n, 10) IN
  (batch_primes(me.count_ + 1) * FloorLn(x)) \div IntervalScale

\* std::lower_bound(primes_.begin(), primes_.end(), start_) - primes_.begin()
lower_bound(primes, start) ==
  Cardinality({i \in 1..Len(primes) : primes[i] < start})

skipto(me, start) ==
  LET me1 == [me EXCEPT !.first_ = TRUE, !.adjust_skipto_ = FALSE, !.i_ = 0,
                        !.count_ = 0, !.start_ = start]
  IN  IF start > max_stop THEN [it |-> me1, exc |-> "primesieve_error"]
      ELSE IF /\ me1.primes_ # <<>>
              /\ me1.primes_[1] <= start
              /\ me1.primes_[Len(me1.primes_)] >= start
        THEN [it |-> [me1 EXCEPT !.adjust_skipto_ = TRUE,
                                 !.i_ = lower_bound(me1.primes_, start)],
              exc |-> "none"]
        ELSE [it |-> me1, exc |-> "none"]

generate_next_primes(me) ==
  IF me.adjust_skipto_
    THEN [it |-> [me EXCEPT !.adjust_skipto_ = FALSE,
                            !.i_ = IF me.i_ > 0 /\ me.primes_[me.i_] >= me.start_
                                     THEN @ - 1 ELSE @,
                            !.first_ = FALSE],
          exc |-> "none"]
    ELSE LET start == IF me.first_ THEN me.start_ ELSE me.primes_[Len(me.primes_)] + 1
             interval_size == get_interval_size(me, start)
             stop == IF start < max_stop - interval_size
                       THEN start + interval_size ELSE max_stop
             g == generate_primes([me EXCEPT !.count_ = @ + 1], start, stop)
         IN  IF g.exc # "none" THEN g
             ELSE [it |-> [g.it EXCEPT !.i_ = 0, !.first_ = FALSE], exc |-> "none"]

generate_previous_primes(me) ==
  IF me.adjust_skipto_
    THEN [it |-> [me EXCEPT !.adjust_skipto_ = FALSE,
                            !.i_ = IF me.i_ > 0 /\ me.primes_[me.i_ + 1] > me.start_
                                     THEN @ - 1 ELSE @,
                            !.first_ = FALSE],
          exc |-> "none"]
    ELSE LET stop == IF me.first_ THEN me.start_
                     ELSE IF me.primes_[1] > 1 THEN me.primes_[1] - 1 ELSE 0
             interval_size == get_interval_size(me, stop)
             start == IF stop > interval_size THEN stop - interval_size ELSE 0
             g == generate_primes([me EXCEPT !.count_ = @ + 1], start, stop)
         IN  IF g.exc # "none" THEN g
             ELSE [it |-> [g.it EXCEPT !.i_ = Len(g.it.primes_), !.first_ = FALSE],
                   exc |-> "none"]

\* next_prime() and previous_prime() of primesieve/iterator.hpp, from the
\* specification: they step through the buffer and have it regenerated
\* when it is exhausted.
\*   if (++i_ >= primes_.size() || first_) generate_next_primes();
\*   return primes_[i_];
next_prime(me) ==
  LET me1 == [me EXCEPT !.i_ = @ + 1]
      g == IF me1.i_ >= Len(me1.primes_) \/ me1.first_
             THEN generate_next_primes(me1)
             ELSE [it |-> me1, exc |-> "none"]
  IN  IF g.exc # "none" THEN [it |-> g.it, exc |-> g.exc, ret |-> 0, oob |-> FALSE]
      ELSE [it |-> g.it, exc |-> "none", ret |-> g.it.primes_[g.it.i_ + 1], oob |-> FALSE]

\*   if (i_ == 0 || first_) generate_previous_primes();
\*   return primes_[--i_];
\* i_ is a size_t: --i_ at 0 wraps to SIZE_MAX, which is -1 here, and the
\* read is then outside the buffer (oob): what it returns is not defined.
previous_prime(me) ==
  LET g == IF me.i_ = 0 \/ me.first_
             THEN generate_previous_primes(me)
             ELSE [it |-> me, exc |-> "none"]
  IN  IF g.exc # "none" THEN [it |-> g.it, exc |-> g.exc, ret |-> 0, oob |-> FALSE]
      ELSE IF g.it.i_ = 0
        THEN [it |-> [g.it EXCEPT !.i_ = -1], exc |-> "none", ret |-> 0, oob |-> TRUE]
        ELSE [it |-> [g.it EXCEPT !.i_ = @ - 1], exc |-> "none",
              ret |-> g.it.primes_[g.it.i_], oob |-> FALSE]

\* iterator(start): skipto(start) on an empty buffer.
NewIterator(start) ==
  skipto([start_ |-> 0, primes_ |-> <<>>, i_ |-> 0, first_ |-> TRUE,
          adjust_skipto_ |-> FALSE, count_ |-> 0], start)

\* The latest call with what it returned, and the call before it.
ItCalled(op, r) ==
  [op |-> op, ret |-> r.ret, exc |-> r.exc, oob |-> r.oob,
   prev |-> [op |-> itCall.op, ret |-> itCall.ret, exc |-> itCall.exc, oob |-> itCall.oob]]

NoItCall == [op |-> "none", ret |-> 0, exc |-> "none", oob |-> FALSE]

ItSkipto(start) ==
  /\ LET r == skipto(it, start) IN
       /\ it' = r.it
       /\ itCall' = ItCalled("skipto", [ret |-> 0, exc |-> r.exc, oob |-> FALSE])
  /\ UNCHANGED <<psVars, lkVars>>

\* A call is followed while the buffer was regenerated fewer than MaxRegen
\* times since the last skipto, and while i_ has not left the buffer.
ItNextPrime ==
  /\ it.count_ < MaxRegen
  /\ it.i_ >= 0
  /\ LET r == next_prime(it) IN
       /\ it' = r.it
       /\ itCall' = ItCalled("next_prime", r)
  /\ UNCHANGED <<psVars, lkVars>>

\* A read outside the buffer returns whatever the memory holds there.
ItPreviousPrime ==
  /\ it.count_ < MaxRegen
  /\ it.i_ >= 0
  /\ LET r == previous_prime(it) IN
       \E g \in (IF r.oob THEN 0..MaxGarbage ELSE {r.ret}) :
         /\ it' = r.it
         /\ itCall' = ItCalled("previous_prime", [r EXCEPT !.ret = g])
  /\ UNCHANGED <<psVars, lkVars>>

\* The iterator before it is constructed, for the PrimeSieve specifications.
ItIdle ==
  /\ it = [start_ |-> 0, primes_ |-> <<>>, i_ |-> 0, first_ |-> TRUE,
           adjust_skipto_ |-> FALSE, count_ |-> 0]
  /\ itCall = [op |-> "none", ret |-> 0, exc |-> "none", oob |-> FALSE, prev |-> NoItCall]

\* primesieve::iterator it(start);
ItInit ==
  \E start \in 0..max_stop :
    /\ it = NewIterator(start).it
    /\ itCall = [op |-> "iterator", ret |-> 0, exc |-> "none", oob |-> FALSE,
                 prev |-> NoItCall]

(***************************************************************************)
(* The iterator on its own.                                                *)
(***************************************************************************)
IterInit == PsInit /\ ItInit /\ LockIdle

IterNext ==
  \/ \E start \in 0..(max_stop + 1) : ItSkipto(start)
  \/ ItNextPrime
  \/ ItPreviousPrime

SpecIter == IterInit /\ [][IterNext]_vars

(***************************************************************************)
(* What the iterator is expected to return.                                *)
(***************************************************************************)
\* The least prime >= n and the greatest prime <= n (0 when there is none).
PrimeFrom(n) == CHOOSE p \in PrimeTable : p >= n /\ \A q \in PrimeTable : q >= n => p <= q

PrimeUpTo(n) ==
  IF \E p \in PrimeTable : p <= n
    THEN CHOOSE p \in PrimeTable : p <= n /\ \A q \in PrimeTable : q <= n => q <= p
    ELSE 0

ItReturned(c, op) == c.op = op /\ c.exc = "none" /\ ~c.oob

\* C9: from an iterator positioned at s, next_prime() calls return the
\* consecutive primes from s on in increasing order, none skipped or
\* repeated across regenerations of the buffer, and a previous_prime()
\* after them returns the prime just before the last value returned.
\* It fails at the upper end of the range, where next_prime() returns 0.
C9_ConsecutivePrimes ==
  /\ (ItReturned(itCall, "next_prime") /\ itCall.prev.op \in {"iterator", "skipto"}
        /\ itCall.prev.exc = "none")
       => itCall.ret = PrimeFrom(it.start_)
  /\ (ItReturned(itCall, "next_prime") /\ ItReturned(itCall.prev, "next_prime"))
       => itCall.ret = PrimeFrom(itCall.prev.ret + 1)
  /\ (ItReturned(itCall, "previous_prime") /\ ItReturned(itCall.prev, "next_prime"))
       => itCall.ret = PrimeUpTo(itCall.prev.ret - 1)

\* C10: next_prime() never returns 0 and never restarts from the bottom of
\* the number line; with no prime left up to max_stop() it fails instead of
\* returning a value.  The code returns the sentinel 0 there.
C10_NextPrimeNeverZero ==
  /\ ItReturned(itCall, "next_prime") => itCall.ret # 0
  /\ (ItReturned(itCall, "next_prime") /\ ItReturned(itCall.prev, "next_prime"))
       => itCall.ret > itCall.prev.ret

(***************************************************************************)
(* The configuration calls on one object, at the edges of what they take.  *)
(***************************************************************************)
\* UINT64_MAX - UINT32_MAX * 10 of setStart and setStop, and its neighbours.
StartStopArgs ==
  LET limit == U64Sub(UINT64_MAX, U64Mul(UINT32_MAX, 10)) IN
  {Zero64, U64Sub(limit, U64(1)), limit, U64Add(limit, 1), UINT64_MAX}

FlagsArgs ==
  {-1, COUNT_TWINS + PRINT_PRIMES, PRINT_STATUS, FLAGS_LIMIT - 1, FLAGS_LIMIT,
   CALLBACK64_OOP_PRIMES}

SieveSizeArgs ==
  {-1, 0, 1, 3, 33, 1000, 2049, 4096, 4097, 2^20}

PreSieveArgs == {12}

ConfigInit == PsInit /\ ItIdle /\ LockIdle

ConfigNext ==
  \/ \E v \in StartStopArgs : SetStart("ps", v)
  \/ \E v \in StartStopArgs : SetStop("ps", v)
  \/ \E f \in FlagsArgs : SetFlags("ps", f)
  \/ \E f \in FlagsArgs : AddFlags("ps", f)
  \/ \E n \in SieveSizeArgs : SetSieveSize("ps", n)
  \/ \E n \in PreSieveArgs : SetPreSieve("ps", n)

SpecConfig == ConfigInit /\ [][ConfigNext]_vars

\* 2^64 - 10 * (2^32 - 1) = (2^32 - 10) * 2^32 + 10, in 16-bit limbs.
Ceiling == <<Base - 1, Base - 10, 0, 10>>

\* What setStart or setStop stored.
Stored(p, c) == IF c.op = "setStart" THEN p[c.o].start_ ELSE p[c.o].stop_

\* C2, corrected: setStart(v) and setStop(v) succeed and store v for every
\* v up to and including 2^64 - 10 * (2^32 - 1) - 2, and fail for
\* v = 2^64 - 10 * (2^32 - 1) - 1 and every larger value; a failing call
\* leaves the object as it was.
C2_StartStopLimit ==
  [][call'.op \in {"setStart", "setStop"} =>
       IF U64Le(call'.u, U64Sub(Ceiling, U64(2)))
         THEN thrown' = "none" /\ Stored(ps', call') = call'.u
         ELSE thrown' = "invalid_argument" /\ ps' = ps]_vars

\* C2 as stated: success up to and including 2^64 - 10 * (2^32 - 1) - 1.
C2_AsStated ==
  [][call'.op \in {"setStart", "setStop"} =>
       IF U64Le(call'.u, U64Sub(Ceiling, U64(1)))
         THEN thrown' = "none" /\ Stored(ps', call') = call'.u
         ELSE thrown' = "invalid_argument" /\ ps' = ps]_vars

\* setStop(2^64 - 10 * (2^32 - 1) - 1) was refused and the stop stored
\* before, the largest one taken, is still there.
C2_Witness ==
  /\ call.op = "setStop"
  /\ call.u = U64Sub(Ceiling, U64(1))
  /\ thrown = "invalid_argument"
  /\ ps["ps"].stop_ = U64Sub(Ceiling, U64(2))

\* Bit k of a two's complement int.
BitOf(x, k) == (x \div 2^k) % 2

\* C4: setFlags(f) and addFlags(f) fail for every f >= 2^20 and leave the
\* object as it was; an accepted setFlags stores f, an accepted addFlags
\* stores old OR f, and the stored flags stay below 2^20.
C4_FlagsLimit ==
  [][call'.op \in {"setFlags", "addFlags"} =>
       IF call'.n >= 2^20
         THEN thrown' = "invalid_argument" /\ ps' = ps
         ELSE /\ thrown' = "none"
              /\ ps'["ps"].flags_ < 2^20
              /\ call'.op = "setFlags" => ps'["ps"].flags_ = call'.n
              /\ call'.op = "addFlags" =>
                   /\ \A k \in 0..30 :
                        BitOf(ps'["ps"].flags_, k) = Max(BitOf(ps["ps"].flags_, k), BitOf(call'.n, k))
                   /\ ps'["ps"].flags_ < 0 <=> (ps["ps"].flags_ < 0 \/ call'.n < 0)]_vars

\* addFlags was accepted and joined its flag to flags stored before.
C4_Witness ==
  /\ call.op = "addFlags"
  /\ call.n = PRINT_STATUS
  /\ thrown = "none"
  /\ ps["ps"].flags_ = COUNT_TWINS + PRINT_PRIMES + PRINT_STATUS

\* C7: after setSieveSize(n), for every int n, the sieve size is a power of
\* two in [1, 4096], in every state the configuration calls reach, and it
\* is the smallest power of two >= n when 1 <= n <= 4096.
C7_SieveSizePowerOf2 ==
  /\ \E e \in 0..12 : ps["ps"].sieveSize_ = 2^e
  /\ (call.op = "setSieveSize" /\ 1 <= call.n /\ call.n <= 4096)
       => ps["ps"].sieveSize_ >= call.n /\ ps["ps"].sieveSize_ < 2 * call.n

\* setSieveSize(33) rounded up to 64.
C7_Witness ==
  /\ call.op = "setSieveSize"
  /\ call.n = 33
  /\ ps["ps"].sieveSize_ = 64

(***************************************************************************)
(* One object, configured and run again and again.                         *)
(***************************************************************************)
RunArgs == {U64(0), U64(5), U64(MaxN)}

RunFlags ==
  {COUNT_PRIMES,
   COUNT_PRIMES + COUNT_TWINS + COUNT_TRIPLETS + PRINT_TWINS,
   COUNT_QUADRUPLETS + CALCULATE_STATUS}

Init == PsInit /\ ItIdle /\ LockIdle

Next ==
  \/ \E v \in RunArgs : SetStart("ps", v)
  \/ \E v \in RunArgs : SetStop("ps", v)
  \/ \E f \in RunFlags : SetFlags("ps", f)
  \/ \E dt \in 0..MaxClock : Sieve("ps", dt)

Spec == Init /\ [][Next]_vars

\* C3: sieve() fails whenever stop_ < start_, and before anything else: the
\* counts, status and seconds are as they were, nothing is counted,
\* printed or passed to a callback, and no engine is constructed.
C3_SieveFailsFirst ==
  [][(call'.op = "sieve" /\ U64Lt(ps["ps"].stop_, ps["ps"].start_)) =>
       /\ thrown' = "invalid_argument"
       /\ ps' = ps
       /\ cout' = <<>> /\ cb' = <<>> /\ events' = <<>>
       /\ afterReset' = afterReset]_vars

\* sieve() was refused on an object that holds the counts and the seconds
\* of an earlier run.
C3_Witness ==
  /\ call.op = "sieve"
  /\ thrown = "invalid_argument"
  /\ U64Lt(ps["ps"].stop_, ps["ps"].start_)
  /\ ps["ps"].counts_[1] > 0
  /\ ps["ps"].seconds_ > 0

\* The counts of an object constructed afresh, given start, stop and flags
\* and run once.
FreshCounts(start, stop, flags) ==
  sieve(World([InitWorld.ps EXCEPT !["ps"].start_ = start, !["ps"].stop_ = stop,
                                   !["ps"].flags_ = flags],
              <<>>, <<>>, <<>>), "ps", 0).w.ps["ps"].counts_

\* C6: counts never accumulate: after a successful sieve(), whatever ran
\* before, the seven counts are those of a fresh object run once with the
\* same start, stop and flags.
C6_CountsDoNotAccumulate ==
  (call.op = "sieve" /\ thrown = "none") =>
    ps["ps"].counts_ = FreshCounts(ps["ps"].start_, ps["ps"].stop_, ps["ps"].flags_)

\* A run on an object that held other, nonzero counts from an earlier run.
C6_Witness ==
  /\ call.op = "sieve"
  /\ thrown = "none"
  /\ call.was # ZeroCounts
  /\ call.was # ps["ps"].counts_
  /\ ps["ps"].counts_ # ZeroCounts

(***************************************************************************)
(* A parent and the child a worker thread constructs from it.              *)
(***************************************************************************)
FamilyFlags == {COUNT_PRIMES, COUNT_PRIMES + CALCULATE_STATUS, COUNT_TWINS + PRINT_STATUS}

FamilyInit == PsInit /\ ItIdle /\ LockIdle

FamilyNext ==
  \/ \E f \in FamilyFlags : SetFlags("ps", f)
  \/ \E o \in Objs : Sieve(o, MaxClock)
  \/ \E g \in 0..MaxGarbage : NewChild(g)
  \/ SetStop("child", U64(MaxN \div 2))
  \/ DeleteChild

SpecFamily == FamilyInit /\ [][FamilyNext]_vars

\* CALCULATE_STATUS or PRINT_STATUS is among the flags.
HasStatusFlag(flags) == (flags \div 2^14) % 4 # 0

\* C5, corrected: after reset() all seven counts are 0; the status is -1
\* for an object that has a parent or has neither CALCULATE_STATUS nor
\* PRINT_STATUS set, and 0 for an object without a parent that has one of
\* them set.  afterReset is the object as the reset() of the latest
\* successful sieve() left it.
C5_AfterReset ==
  (call.op = "sieve" /\ thrown = "none") =>
    /\ afterReset.counts_ = [i \in 1..7 |-> 0]
    /\ afterReset.status_ =
         IF HasStatusFlag(afterReset.flags_) /\ afterReset.parent_ = NULL
           THEN [n |-> 0, d |-> 1] ELSE [n |-> -1, d |-> 1]

\* C5 as stated: counts 0 and status -1 for every flag configuration.
C5_AsStated ==
  (call.op = "sieve" /\ thrown = "none") =>
    /\ afterReset.counts_ = [i \in 1..7 |-> 0]
    /\ afterReset.status_ = [n |-> -1, d |-> 1]

\* reset() ran in a child that has a status flag set and held counts.
C5_Witness ==
  /\ call.op = "sieve"
  /\ call.o = "child"
  /\ thrown = "none"
  /\ HasStatusFlag(afterReset.flags_)
  /\ afterReset.parent_ = "ps"
  /\ call.was # ZeroCounts
  /\ afterReset.status_ = [n |-> -1, d |-> 1]

(***************************************************************************)
(* Runs over the intervals [start, stop] up to MaxN: the object starts     *)
(* with the interval set by setStart and setStop, and the calls below run  *)
(* on that interval.                                                       *)
(***************************************************************************)
IntervalIs(a, b) ==
  /\ ps = [o \in Objs |->
             IF o = "ps"
               THEN setStop(setStart(InitWorld.ps[o], U64(a)).obj, U64(b)).obj
               ELSE InitWorld.ps[o]]
  /\ call = [op |-> "setStop", o |-> "ps", u |-> U64(b), n |-> 0, was |-> ZeroCounts]
  /\ cout = <<>>
  /\ terminal = <<>>
  /\ cb = <<>>
  /\ events = <<>>
  /\ afterReset = InitWorld.ps["ps"]
  /\ thrown = "none"
  /\ ItIdle
  /\ LockIdle

IntervalFlags == {COUNT_TWINS + PRINT_PRIMES, 2^7 - 1}

IntervalInit == \E a \in 0..MaxN : \E b \in a..MaxN : IntervalIs(a, b)

IntervalNext ==
  \/ GetPrimeCount("ps", ToNat(ps["ps"].start_), ToNat(ps["ps"].stop_), MaxClock)
  \/ \E f \in IntervalFlags : SetFlags("ps", f)
  \/ Sieve("ps", MaxClock)

SpecInterval == IntervalInit /\ [][IntervalNext]_vars

(***************************************************************************)
(* Runs over the intervals that start at or below MaxSmall, under count,   *)
(* print and callback flags: the runs that meet the table smallPrimes_.    *)
(***************************************************************************)
SmallFlags == {2^14 - 1}

MoreFlags == {COUNT_PRIMES + PRINT_TWINS + COUNT_QUINTUPLETS}

SmallInit == \E a \in 0..MaxSmall : \E b \in a..MaxN : IntervalIs(a, b)

SmallNext ==
  \/ \E f \in SmallFlags : SetFlags("ps", f)
  \/ \E f \in MoreFlags : AddFlags("ps", f)
  \/ Sieve("ps", MaxClock)
  \/ \E kind \in 1..Len(CallbackFlags) :
       GeneratePrimes("ps", kind, ToNat(ps["ps"].start_), ToNat(ps["ps"].stop_),
                      "callback", "obj", MaxClock)

SpecSmall == SmallInit /\ [][SmallNext]_vars

(***************************************************************************)
(* What a run is expected to count, print and call back.                   *)
(***************************************************************************)
\* pi(n): the number of primes up to n, by trial division.
Pi(n) == Cardinality({m \in 2..n : \A d \in 2..(m - 1) : m % d # 0})

\* C1: for every interval start <= stop up to MaxN, the count of primes
\* that sieve(start, stop, COUNT_PRIMES) leaves in counts_[0] is
\* pi(stop) - pi(start - 1): 2, 3, 5 and the primes >= 7 are each counted
\* once.
C1_PrimeCount ==
  (call.op = "getPrimeCount" /\ thrown = "none") =>
    ps["ps"].counts_[1] = Pi(ToNat(ps["ps"].stop_)) - Pi(ToNat(ps["ps"].start_) - 1)

\* A count over an interval that holds small primes and primes of the engine.
C1_Witness ==
  /\ call.op = "getPrimeCount"
  /\ thrown = "none"
  /\ ps["ps"].start_ = U64(3)
  /\ ps["ps"].stop_ = U64(13)
  /\ ps["ps"].counts_[1] = 5

\* The small primes and k-tuplets, as they are printed, with their members.
SmallEntries ==
  { [str |-> "2", members |-> {2}],
    [str |-> "3", members |-> {3}],
    [str |-> "5", members |-> {5}],
    [str |-> "(3, 5)", members |-> {3, 5}],
    [str |-> "(5, 7)", members |-> {5, 7}],
    [str |-> "(5, 7, 11)", members |-> {5, 7, 11}],
    [str |-> "(5, 7, 11, 13)", members |-> {5, 7, 11, 13}],
    [str |-> "(5, 7, 11, 13, 17)", members |-> {5, 7, 11, 13, 17}] }

\* How often x occurs in the sequence s.
Occurs(s, x) == Cardinality({i \in DOMAIN s : s[i] = x})

\* The count events of the latest run for the counter of the k-tuplets.
CountedSmall(k) ==
  Cardinality({i \in DOMAIN events : events[i].what = "count" /\ events[i].index = k - 1})

\* C8: in a run, a small prime or small k-tuplet is counted only if all of
\* its members lie in [start, stop] and COUNT of k is set, printed only if
\* they do and PRINT of k is set, and then once; it adds to the counter of
\* its own k only; callbacks are called for the primes 2, 3, 5 alone.
C8_SmallPrimes ==
  (call.op \in {"sieve", "generatePrimes"} /\ thrown = "none") =>
    LET me == ps["ps"]
        a == ToNat(me.start_)
        b == ToNat(me.stop_)
    IN  /\ \A e \in SmallEntries :
             LET k == Cardinality(e.members)
                 inside == e.members \subseteq a..b
                 count == [what |-> "count", str |-> e.str, index |-> k - 1]
             IN  /\ Occurs(events, count) =
                      IF inside /\ BitOf(me.flags_, k - 1) = 1 THEN 1 ELSE 0
                 /\ Occurs(cout, e.str) =
                      IF inside /\ BitOf(me.flags_, k + 6) = 1 THEN 1 ELSE 0
                 /\ \A i \in DOMAIN events :
                      events[i].str = e.str =>
                        /\ events[i].index = k - 1
                        /\ events[i].what \notin {"count", "print"} => k = 1
        /\ \A i \in DOMAIN events :
             events[i].what = "PrimeNumberFinder" \/ \E e \in SmallEntries : events[i].str = e.str
        /\ \A k \in 1..7 :
             me.counts_[k] =
               CountedSmall(k)
                 + (IF BitOf(me.flags_, k - 1) = 1 THEN Len(TupletsFrom(k - 1, Max(a, 7), b)) ELSE 0)
        /\ \A i \in DOMAIN cb :
             /\ cb[i].arg \in a..b
             /\ cb[i].arg \in {2, 3, 5} \/ cb[i].arg >= 7
             /\ \A j \in DOMAIN cb : cb[j] = cb[i] => j = i

\* A run with a callback over [start, stop] with 5 and 17 inside counted
\* the small quintuplet, printed the small twins, and left the counter of
\* the twins alone.
C8_Witness ==
  /\ call.op = "sieve"
  /\ thrown = "none"
  /\ Occurs(events, [what |-> "count", str |-> "(5, 7, 11, 13, 17)", index |-> 4]) = 1
  /\ Occurs(cout, "(5, 7)") = 1
  /\ \E i \in DOMAIN cb : cb[i].arg = 5
  /\ ps["ps"].counts_[2] = 0


(***************************************************************************)
(* SpecLock: NThreads threads that build OmpLockGuard objects on one lock, *)
(* one guard per thread at a time, and leave the guard's scope by return   *)
(* or by an exception.  A constructor with waitForLock = true blocks in    *)
(* omp_set_lock until the lock is not set: LkEnter is the call, LkAcquire  *)
(* its return.                                                             *)
(***************************************************************************)
Blocked(t) == guards[t].pc = "omp_set_lock"
Holds(t) == guards[t].pc = "scope" /\ guards[t].isSet_

LkTest(t) ==
  /\ guards[t].pc \in {"none", "gone"}
  /\ LET r == OmpLockGuard_test(lock, t) IN
       /\ lock' = r.lock
       /\ guards' = [guards EXCEPT ![t] = r.me]
  /\ UNCHANGED <<psVars, itVars>>

LkEnter(t) ==
  /\ guards[t].pc \in {"none", "gone"}
  /\ guards' = [guards EXCEPT ![t] = [NoGuard EXCEPT !.pc = "omp_set_lock", !.wait = TRUE]]
  /\ UNCHANGED <<lock, psVars, itVars>>

LkAcquire(t) ==
  /\ Blocked(t)
  /\ lock = Unlocked
  /\ LET r == OmpLockGuard_set(lock, t) IN
       /\ lock' = r.lock
       /\ guards' = [guards EXCEPT ![t] = r.me]
  /\ UNCHANGED <<psVars, itVars>>

LkScopeEnd(t, how) ==
  /\ guards[t].pc = "scope"
  /\ LET r == OmpLockGuard_dtor(guards[t], lock, t, how) IN
       /\ lock' = r.lock
       /\ guards' = [guards EXCEPT ![t] = r.me]
  /\ UNCHANGED <<psVars, itVars>>

LkLeave(t) == \E how \in {"return", "throw"} : LkScopeEnd(t, how)

LockInit == PsInit /\ ItIdle /\ LockIdle

LockNext ==
  \E t \in Threads :
    \/ LkTest(t)
    \/ LkEnter(t)
    \/ LkAcquire(t)
    \/ LkScopeEnd(t, "return")
    \/ LkScopeEnd(t, "throw")

\* Every scope ends, and omp_set_lock returns if the lock stays unset.  An
\* OpenMP lock promises no order among the threads that want it.
LockFairness == \A t \in Threads : WF_vars(LkLeave(t)) /\ WF_vars(LkAcquire(t))

SpecLock == LockInit /\ [][LockNext]_vars /\ LockFairness

\* At most one live guard has isSet() true, and it is the guard of the
\* thread that has the lock set.
MutualExclusion ==
  /\ Cardinality({t \in Threads : Holds(t)}) <= 1
  /\ \A t \in Threads : Holds(t) => lock = t

\* A live guard has not unset the lock; a guard whose scope ended has unset
\* it once if it had set it, and never otherwise.
ReleasedOnce ==
  \A t \in Threads :
    /\ guards[t].pc = "scope" => guards[t].unsets = 0
    /\ guards[t].pc = "gone" => guards[t].unsets = (IF guards[t].got THEN 1 ELSE 0)
    /\ guards[t].pc = "gone" /\ guards[t].got => lock # t

\* The lock is set exactly while a guard that set it is alive.
LockFollowsGuards ==
  \A t \in Threads : lock = t <=> Holds(t) /\ guards[t].got

\* C11: in every interleaving at most one live guard has isSet() true, a
\* guard that set the lock unsets it exactly once when its scope ends, by
\* return or by an exception, a guard built with waitForLock = false that
\* did not get the lock never unsets it, and the lock a guard holds is
\* released: every holder's scope ends and leaves the lock unset or with
\* another thread.  A blocked thread gets the lock if the lock is granted
\* fairly, that is, if omp_set_lock returns for a thread that finds the lock
\* unset again and again.
C11_GuardedLock ==
  /\ [](MutualExclusion /\ ReleasedOnce /\ LockFollowsGuards)
  /\ \A t \in Threads : Holds(t) ~> (lock # t)
  /\ (\A t \in Threads : SF_vars(LkAcquire(t)))
       => (\A t \in Threads : Blocked(t) ~> Holds(t))

\* C11 as stated: a thread blocked in a waiting guard eventually acquires
\* the lock.
C11_AsStated == \A t \in Threads : Blocked(t) ~> Holds(t)

\* Thread 3 was blocked and holds the lock after thread 1, whose guard had
\* set the lock, left by an exception and unset it once; thread 2's guard
\* was built with waitForLock = false, did not get the lock, and is gone
\* without an unset.
C11_Witness ==
  /\ guards[1].pc = "gone" /\ guards[1].got /\ guards[1].exit = "throw" /\ guards[1].unsets = 1
  /\ guards[2].pc = "gone" /\ ~guards[2].wait /\ ~guards[2].got /\ guards[2].unsets = 0
  /\ Holds(3) /\ guards[3].wait /\ lock = 3


(***************************************************************************)
(* SpecStatus: the status of a run.  "ps" is given an interval and flags,  *)
(* sieve() on "ps" starts a run with reset(), and updateStatus(segment) is *)
(* called on "ps" or on a child of "ps", by the engines of sieve() and one *)
(* call at a time by UpdateStatus.  Reset is reset() called on its own, as *)
(* a driver of children does before the children post their segments.     *)
(***************************************************************************)
Reset(o) ==
  /\ ps[o].live
  /\ LET w == reset(World(ps, <<>>, <<>>, <<>>), o) IN
       Commit([w |-> w, snap |-> w.ps[o], exc |-> "none"], Called("reset", o))

\* updateStatus(segment), as the engine of o calls it for a processed
\* segment.  The sum of the segments stays below MaxSegments.
UpdateStatus(o, segment) ==
  /\ ps[o].live
  /\ ps[o].parent_ # NULL => ps[ps[o].parent_].live
  /\ ps[IF ps[o].parent_ # NULL THEN ps[o].parent_ ELSE o].sumSegments_ < MaxSegments
  /\ Commit([w |-> updateStatus(World(ps, <<>>, <<>>, <<>>), o, segment),
             snap |-> afterReset, exc |-> "none"],
            [Called("updateStatus", o) EXCEPT !.n = segment])

StatusStops == {2, 6}
StatusFlags == {PRINT_STATUS, CALCULATE_STATUS, COUNT_PRIMES}
Segments == {0, MaxSegment}

StatusInit == \E b \in StatusStops : IntervalIs(0, b)

StatusNext ==
  \/ \E f \in StatusFlags : SetFlags("ps", f)
  \/ Reset("ps")
  \/ Sieve("ps", MaxClock)
  \/ \E o \in Objs : \E segment \in Segments : UpdateStatus(o, segment)
  \/ NewChild(MaxGarbage)
  \/ DeleteChild

SpecStatus == StatusInit /\ [][StatusNext]_vars

\* The percentage of a status line.
Percent(line) == CHOOSE n \in 0..100 : StatusLine(n) = line

FracLe(x, y) == x.n * y.d <= y.n * x.d

\* The percentages printed since the run began are strictly increasing.
PrintedIncreasing ==
  \A i \in 1..Len(terminal) : \A j \in 1..Len(terminal) :
    i < j => Percent(terminal[i]) < Percent(terminal[j])

\* A step in which reset() runs on "ps": the next run begins.
NewRun == call'.o = "ps" /\ call'.op \in {"reset", "sieve", "getPrimeCount", "generatePrimes"}

\* C12: within one run, that is between two reset() of "ps", and for every
\* sequence of updateStatus(segment) calls with segment >= 0 made on "ps"
\* or on its child: with PRINT_STATUS set on "ps" a call prints the
\* percentage exactly if the integer part of the status is above the
\* integer part it had before the call, and what it prints is the new
\* integer part; the percentages printed in the run are strictly
\* increasing; the status never decreases and never exceeds 100.
C12_StatusPrinting ==
  /\ [](PrintedIncreasing /\ FracLe(ps["ps"].status_, Frac(100, 1)))
  /\ [][~NewRun => FracLe(ps["ps"].status_, ps'["ps"].status_)]_vars
  /\ [][(call'.op = "updateStatus" /\ isFlag(ps["ps"], PRINT_STATUS)) =>
          cout' = IF ToInt(ps'["ps"].status_) > ToInt(ps["ps"].status_)
                    THEN <<StatusLine(ToInt(ps'["ps"].status_))>>
                    ELSE <<>>]_vars

\* In one run with PRINT_STATUS at least three percentages were printed,
\* the last of them below 100 and by an updateStatus call that the child
\* forwarded to "ps" after earlier segments.
C12_Witness ==
  /\ isFlag(ps["ps"], PRINT_STATUS)
  /\ Len(terminal) >= 3
  /\ call.op = "updateStatus" /\ call.o = "child" /\ call.n > 0
  /\ cout = <<terminal[Len(terminal)]>>
  /\ ps["ps"].sumSegments_ > call.n
  /\ FracLe(ps["ps"].status_, Frac(99, 1))


(***************************************************************************)
(* The batch size of the iterator, under SpecIter.  it.count_ is the       *)
(* number of get_interval_size calls, that is of buffer regenerations,     *)
(* since the last skipto; the next regeneration is number it.count_ + 1.   *)
(***************************************************************************)
\* The base batch size of regeneration k when the first `small` of them
\* use 32 KiB / 8 = 4096 primes and the later ones 4 MiB / 8 = 524288.
BaseBatch(small, k) == IF k <= small THEN 4096 ELSE 524288

\* A step that regenerates the buffer.
Regenerates == itCall'.op \in {"next_prime", "previous_prime"} /\ it'.count_ # it.count_

\* C13: the base batch size is 4096 primes for each of the first nine
\* buffer regenerations since the last skipto and 524288 primes from the
\* tenth on; a regeneration counts the counter up by one, and skipto sets
\* it to zero.
C13_BatchSize ==
  /\ [](batch_primes(it.count_ + 1) = BaseBatch(9, it.count_ + 1))
  /\ [][Regenerates => it'.count_ = it.count_ + 1]_vars
  /\ [][itCall'.op = "skipto" => it'.count_ = 0]_vars

\* C13 as stated: 4096 primes for the first ten regenerations.
C13_AsStated == batch_primes(it.count_ + 1) = BaseBatch(10, it.count_ + 1)

\* The tenth regeneration since the last skipto was made by next_prime()
\* and left more primes in the buffer than a batch of 4096 primes spans on
\* the number line of the model.
C13_Witness ==
  /\ it.count_ = 10
  /\ itCall.op = "next_prime" /\ itCall.exc = "none"
  /\ itCall.prev.op # "skipto"
  /\ it.i_ = 0
  /\ Len(it.primes_) > (BaseBatch(9, 1) * FloorLn(10)) \div IntervalScale


(***************************************************************************)
(* skipto with and without the cache, under SpecIter.  A state with        *)
(* it.adjust_skipto_ is the state skipto(it.start_) leaves when the buffer *)
(* contained start_; the iterator NewIterator(it.start_) is the one whose  *)
(* buffer does not, and regenerates.                                       *)
(***************************************************************************)
InBuffer(me) == me.i_ >= 0 /\ me.i_ < Len(me.primes_)

SameReturn(r1, r2) == ~r1.oob /\ ~r2.oob /\ r1.exc = r2.exc /\ r1.ret = r2.ret

\* C14: after skipto(s) on a buffer that contains s, the first next_prime()
\* and the first previous_prime() return what they return after skipto(s)
\* on an iterator whose buffer does not contain s, and the index stays
\* inside the buffer.
C14_SkiptoIgnoresCache ==
  it.adjust_skipto_ =>
    LET fresh == NewIterator(it.start_).it IN
      /\ InBuffer(it)
      /\ SameReturn(next_prime(it), next_prime(fresh))
      /\ InBuffer(next_prime(it).it)
      /\ SameReturn(previous_prime(it), previous_prime(fresh))
      /\ InBuffer(previous_prime(it).it)

=============================================================================
